---- MODULE Spec2Model ----
\* Model of buildkit/config.py: layered path lists, config bundle resolution
\* (ConfigBundle.from_base_name), the typed config files and their merge,
\* cache and write-back behaviour.
EXTENDS Integers, Sequences, FiniteSets, TLC

VARIABLES
    exists,             \* directories that exist on the filesystem (Path.exists())
    tree,               \* directory -> (file name -> file content): the files on disk
    path_order,         \* _ConfigABC._path_order of the object, index 1 = left end;
                        \* a layer is named by its directory
    op,                 \* the last call made on the object and its argument
    result,             \* what that call returned or raised
    read_cache,         \* _CacheConfigMixin._read_cache of the object
    cls,                \* the class of the object
    value,              \* what the last read of _config_data returned or raised
    n_access,           \* history: the reads of _config_data so far
    n_parse,            \* history: the times _parse_data has read the layers
    depends,            \* bundle name -> BaseBundleMetaIni.depends of its metadata
    pending_explore,    \* from_base_name: pending_explore, index 1 = left end
    known_names,        \* from_base_name: known_names
    base_bundle_name,   \* from_base_name: the name popped by the current iteration
    push_log,           \* history: the names pushed on pending_explore, oldest first
    pc                  \* from_base_name: "idle", "loop", "done" or the exception raised

resVars == <<depends, pending_explore, known_names, base_bundle_name, push_log, pc>>
accVars == <<cls, value, n_access, n_parse>>
vars == <<exists, tree, path_order, op, result, read_cache, cls, value, n_access, n_parse,
          depends, pending_explore, known_names, base_bundle_name, push_log, pc>>

\* ---------------------------------------------------------------- bounds

\* Longest depends list of one bundle's metadata.
MaxDeps == 2

\* The bundle names the metadata files use; a bundle's directory is
\* config_bundles/<name> and is named by the bundle name.
BundleNames == {"a", "b", "c"}
\* The bundle name from_base_name is called with.
RootName == "a"
\* The bundle whose directory may be missing from config_bundles/.
OptionalName == "c"
NoName == "-"

\* ---------------------------------------------------------------- helpers

SeqsUpTo(S, n) == UNION {[1..k -> S] : k \in 0..n}

Range(s) == {s[i] : i \in 1..Len(s)}

NoDuplicates(s) == \A i, j \in 1..Len(s) : s[i] = s[j] => i = j

Reverse(s) == [i \in 1..Len(s) |-> s[Len(s) + 1 - i]]

\* ---------------------------------------------------------------- deque

appendleft(dq, x) == <<x>> \o dq

append(dq, x) == dq \o <<x>>

\* deque.popleft() and deque.pop(): the element at the left (right) end, and
\* the deque without it.
popleft(dq) == [item |-> dq[1], rest |-> Tail(dq)]
pop(dq) == [item |-> dq[Len(dq)], rest |-> SubSeq(dq, 1, Len(dq) - 1)]

\* ---------------------------------------------------------------- _ConfigABC

\* _check_path_add: "False" when the path is known, "FileNotFoundError" when
\* it is unknown and does not exist, "True" otherwise. The membership test
\* comes first, so a known path is never checked for existence.
checkAlwaysAdd(order, path, fs) == IF path \notin fs THEN "FileNotFoundError" ELSE "True"
check_path_add(order, path, fs) ==
    IF path \in Range(order) THEN "False"
    ELSE IF path \notin fs THEN "FileNotFoundError"
    ELSE "True"

\* update_first_path: the new order and what the call returns or raises.
updateFirstAtBack(order, path, fs) ==
    LET c == check_path_add(order, path, fs)
    IN [order |-> IF c = "True" THEN append(order, path) ELSE order, ret |-> c]
updateFirstReportsAdded(order, path, fs) ==
    LET c == check_path_add(order, path, fs)
    IN [order |-> IF c = "True" THEN appendleft(order, path) ELSE order,
        ret |-> IF c = "False" THEN "True" ELSE c]
update_first_path(order, path, fs) ==
    LET c == check_path_add(order, path, fs)
    IN [order |-> IF c = "True" THEN appendleft(order, path) ELSE order, ret |-> c]

update_last_path(order, path, fs) ==
    LET c == check_path_add(order, path, fs)
    IN [order |-> IF c = "True" THEN append(order, path) ELSE order, ret |-> c]

\* ---------------------------------------------------------------- text files

\* A text is a sequence of characters, "\n" ending a line.
NL == "\n"

RECURSIVE splitlinesFrom(_, _, _)
splitlinesFrom(text, i, cur) ==
    IF i > Len(text) THEN (IF cur = <<>> THEN <<>> ELSE <<cur>>)
    ELSE IF text[i] = NL THEN <<cur>> \o splitlinesFrom(text, i + 1, <<>>)
    ELSE splitlinesFrom(text, i + 1, Append(cur, text[i]))

\* str.splitlines()
splitlines(text) == splitlinesFrom(text, 1, <<>>)

\* filter(len, lines)
filterLen(lines) == SelectSeq(lines, LAMBDA l : Len(l) > 0)

RECURSIVE splitFrom(_, _, _, _)
splitFrom(line, sep, i, cur) ==
    IF i > Len(line) THEN <<cur>>
    ELSE IF line[i] = sep THEN <<cur>> \o splitFrom(line, sep, i + 1, <<>>)
    ELSE splitFrom(line, sep, i + 1, Append(cur, line[i]))

\* str.split(sep): the line is cut at every occurrence of sep.
split(line, sep) == splitFrom(line, sep, 1, <<>>)

\* '%s\n' % x for every entry, concatenated (writelines).
RECURSIVE writelines(_)
writelines(lines) ==
    IF lines = <<>> THEN <<>> ELSE Head(lines) \o <<NL>> \o writelines(Tail(lines))

\* ---------------------------------------------------------------- dict

\* A dict is the sequence of its <<key, value>> items in insertion order.
dictKeys(d) == {d[i][1] : i \in 1..Len(d)}

dictGet(d, k) == LET i == CHOOSE i \in 1..Len(d) : d[i][1] = k IN d[i][2]

\* d[k] = v: a known key keeps its place and takes the new value.
dictSetKeepFirst(d, k, v) == IF k \in dictKeys(d) THEN d ELSE Append(d, <<k, v>>)
dictSet(d, k, v) ==
    IF k \in dictKeys(d)
    THEN [i \in 1..Len(d) |-> IF d[i][1] = k THEN <<k, v>> ELSE d[i]]
    ELSE Append(d, <<k, v>>)

\* dict equality does not look at the insertion order.
dictEq(d, e) ==
    /\ dictKeys(d) = dictKeys(e)
    /\ \A k \in dictKeys(d) : dictGet(d, k) = dictGet(e, k)

\* ---------------------------------------------------------------- file names

PRUNING_LIST == "pruning.list"
DOMAIN_REGEX_LIST == "domain_regex.list"
DOMAIN_SUBSTITUTION_LIST == "domain_substitution.list"
EXTRA_DEPS_INI == "extra_deps.ini"
GN_FLAGS_MAP == "gn_flags.map"
BASEBUNDLEMETA_INI == "basebundlemeta.ini"
PATCH_ORDER_LIST == "patch_order.list"
PATCHES_DIR == "patches"
VERSION_INI == "version.ini"

\* _FILE_DEF: file name -> the class that represents it, "None" for an ignored name.
FILE_DEF ==
    (BASEBUNDLEMETA_INI :> "None") @@ (PRUNING_LIST :> "ListConfigFile")
    @@ (DOMAIN_REGEX_LIST :> "DomainRegexList")
    @@ (DOMAIN_SUBSTITUTION_LIST :> "ListConfigFile")
    @@ (EXTRA_DEPS_INI :> "ExtraDepsIni") @@ (GN_FLAGS_MAP :> "MappingConfigFile")
    @@ (PATCH_ORDER_LIST :> "PatchesConfig") @@ (PATCHES_DIR :> "None")
    @@ (VERSION_INI :> "VersionIni")

\* ---------------------------------------------------------------- ListConfigFile

\* The texts of file fname in the layers of order, front to back.
layerTexts(order, tr, fname) == [i \in 1..Len(order) |-> tr[order[i]][fname]]

\* ListConfigFile._line_generator: the non-empty lines of every layer, in order.
RECURSIVE line_generator(_)
line_generator(texts) ==
    IF texts = <<>> THEN <<>>
    ELSE filterLen(splitlines(Head(texts))) \o line_generator(Tail(texts))

\* ---------------------------------------------------------------- MappingConfigFile

\* The lines of one layer: key, value = line.split('='); new_dict[key] = value.
\* A line that does not split in exactly two parts raises ValueError.
RECURSIVE parseLines(_, _)
parseLines(lines, new_dict) ==
    IF lines = <<>> THEN [raised |-> "", data |-> new_dict]
    ELSE LET parts == split(Head(lines), "=")
         IN IF Len(parts) # 2 THEN [raised |-> "ValueError", data |-> new_dict]
            ELSE parseLines(Tail(lines), dictSet(new_dict, parts[1], parts[2]))

RECURSIVE mappingLayers(_, _)
mappingLayers(texts, new_dict) ==
    IF texts = <<>> THEN [raised |-> "", data |-> new_dict]
    ELSE LET r == parseLines(filterLen(splitlines(Head(texts))), new_dict)
         IN IF r.raised # "" THEN r ELSE mappingLayers(Tail(texts), r.data)

\* MappingConfigFile._parse_data
mappingParse(texts) == mappingLayers(texts, <<>>)

\* ---------------------------------------------------------------- ConfigBundle._parse_data

\* The path order of the config file fname of a bundle: the first directory
\* of order that holds it constructs the object, every later one is added by
\* update_last_path.
RECURSIVE fileLayers(_, _, _, _)
fileLayers(order, tr, fname, acc) ==
    IF order = <<>> THEN acc
    ELSE LET d == Head(order)
             holders == {x \in DOMAIN tr : fname \in DOMAIN tr[x]}
         IN fileLayers(Tail(order), tr, fname,
                IF fname \notin DOMAIN tr[d] THEN acc
                ELSE IF acc = <<>> THEN <<d>>
                ELSE update_last_path(acc, d, holders).order)

\* file_dict: file name -> [class, order], or ValueError for an unknown name.
bundleParse(order, tr) ==
    LET found == UNION {DOMAIN tr[order[i]] : i \in 1..Len(order)}
        kept == {f \in found \cap DOMAIN FILE_DEF : FILE_DEF[f] # "None"}
    IN IF ~(found \subseteq DOMAIN FILE_DEF)
       THEN [raised |-> "ValueError", data |-> <<>>]
       ELSE [raised |-> "",
             data |-> [f \in kept |->
                         [class |-> FILE_DEF[f], order |-> fileLayers(order, tr, f, <<>>)]]]

\* ---------------------------------------------------------------- IniConfigFile

\* An INI file is modelled by what configparser reads from it: section name ->
\* (key -> raw value), a raw value being a sequence of characters. The files
\* of the model have no [DEFAULT] section.

\* ConfigParser.read_file on a parser that holds parsed: the sections and keys
\* of the file are added, a key already present takes the file's value.
read_file(parsed, file) ==
    [sec \in DOMAIN parsed \cup DOMAIN file |->
        IF sec \notin DOMAIN file THEN parsed[sec]
        ELSE IF sec \notin DOMAIN parsed THEN file[sec]
        ELSE [k \in DOMAIN parsed[sec] \cup DOMAIN file[sec] |->
                IF k \in DOMAIN file[sec] THEN file[sec][k] ELSE parsed[sec][k]]]

RECURSIVE readLayers(_, _)
readLayers(files, parsed) ==
    IF files = <<>> THEN parsed ELSE readLayers(Tail(files), read_file(parsed, Head(files)))

\* BasicInterpolation.before_get on a raw value without %(name)s references:
\* "%%" reads as "%", any other "%" raises InterpolationSyntaxError.
RECURSIVE interpolate(_)
interpolate(raw) ==
    IF raw = <<>> THEN [raised |-> "", data |-> <<>>]
    ELSE IF Head(raw) # "%"
    THEN LET r == interpolate(Tail(raw))
         IN [raised |-> r.raised, data |-> <<Head(raw)>> \o r.data]
    ELSE IF Len(raw) >= 2 /\ raw[2] = "%"
    THEN LET r == interpolate(SubSeq(raw, 3, Len(raw)))
         IN [raised |-> r.raised, data |-> <<"%">> \o r.data]
    ELSE [raised |-> "InterpolationSyntaxError", data |-> <<>>]

\* section[key] and section.get(key): the interpolated value.
sectionGet(section, k) == interpolate(section[k])

\* The keys a section's schema allows and the ones it requires.
VersionKeys == {"chromium_version", "release_revision", "release_extra"}
VersionRequired == {"chromium_version", "release_revision"}

\* dict(section) passes And(str, len) for every key: the value interpolates
\* and is not empty.
valuesValid(section) ==
    \A k \in DOMAIN section :
        LET v == sectionGet(section, k) IN v.raised = "" /\ Len(v.data) > 0

\* ExtraDepsIni._hashes, _required_keys, _optional_keys and
\* _passthrough_properties. _optional_keys is written ('strip_leading_dirs'),
\* a parenthesised str and not a tuple: unpacking it with * and iterating it
\* yield its characters.
hashes == <<"md5", "sha1", "sha256", "sha512">>
required_keys == <<"version", "url", "download_name">>
optional_keys ==
    <<"s", "t", "r", "i", "p", "_", "l", "e", "a", "d", "i", "n", "g", "_", "d", "i", "r", "s">>
passthrough_properties == required_keys \o optional_keys

\* self._schema.validate(parsed_ini): "" or the error raised. A section may
\* hold only keys its schema names and must hold the required ones; the
\* extra-deps schema requires one of the hash keys too.
validate(c, ini) ==
    CASE c = "ExtraDepsIni" ->
            IF \A sec \in DOMAIN ini :
                  /\ Range(required_keys) \subseteq DOMAIN ini[sec]
                  /\ DOMAIN ini[sec] \subseteq
                        Range(required_keys) \cup Range(optional_keys) \cup Range(hashes)
                  /\ DOMAIN ini[sec] \cap Range(hashes) # {}
                  /\ valuesValid(ini[sec])
            THEN "" ELSE "SchemaError"
      [] c = "VersionIni" ->
            IF /\ DOMAIN ini = {"version"}
               /\ VersionRequired \subseteq DOMAIN ini["version"]
               /\ DOMAIN ini["version"] \subseteq VersionKeys
               /\ valuesValid(ini["version"])
            THEN "" ELSE "SchemaError"
      [] OTHER -> ""

\* IniConfigFile._parse_data
iniParse(c, files) ==
    LET parsed_ini == readLayers(files, <<>>)
        err == validate(c, parsed_ini)
    IN [raised |-> err, data |-> IF err = "" THEN parsed_ini ELSE <<>>]

\* ---------------------------------------------------------------- _config_data

None == [none |-> TRUE, data |-> <<>>]
Some(x) == [none |-> FALSE, data |-> x]

\* The classes that inherit _CacheConfigMixin, and the INI ones among them.
IniClasses == {"IniConfigFile", "VersionIni", "ExtraDepsIni", "BaseBundleMetaIni"}
CachedClasses == IniClasses \cup {"MappingConfigFile", "ConfigBundle"}

\* The file name of the objects of a class in the model.
fileName(c) ==
    CASE c = "ListConfigFile" -> PRUNING_LIST
      [] c = "MappingConfigFile" -> GN_FLAGS_MAP
      [] c = "VersionIni" -> VERSION_INI
      [] c = "ExtraDepsIni" -> EXTRA_DEPS_INI
      [] OTHER -> BASEBUNDLEMETA_INI

\* self._parse_data() of an object of class c with the given path order.
parseData(c, order, tr) ==
    CASE c = "ConfigBundle" -> bundleParse(order, tr)
      [] c = "ListConfigFile" ->
            [raised |-> "", data |-> line_generator(layerTexts(order, tr, fileName(c)))]
      [] c = "MappingConfigFile" -> mappingParse(layerTexts(order, tr, fileName(c)))
      [] OTHER -> iniParse(c, layerTexts(order, tr, fileName(c)))

\* bool(self._read_cache): None and an empty dict are false, a ConfigParser
\* always counts its default section and is true.
truthy(c, cache) ==
    /\ ~cache.none
    /\ (c \in IniClasses \/ DOMAIN cache.data # {})

\* The _config_data property: what it returns or raises, the cache after it and
\* whether the layers were read. Only the classes with _CacheConfigMixin look
\* at _read_cache; the others parse on every read.
configData(c, cache, order, tr) ==
    IF c \in CachedClasses /\ truthy(c, cache)
    THEN [cache |-> cache, value |-> [raised |-> "", data |-> cache.data], parsed |-> FALSE]
    ELSE LET parsed_data == parseData(c, order, tr)
         IN [cache |-> IF c \in CachedClasses /\ parsed_data.raised = ""
                        THEN Some(parsed_data.data) ELSE cache,
             value |-> parsed_data,
             parsed |-> TRUE]

\* ---------------------------------------------------------------- ConfigBundle.from_base_name

\* The for loop over one bundle's depends: every dependency is put in front of
\* the layer order by update_first_path and, when it was added, pushed on the
\* left of pending_explore. A missing directory raises FileNotFoundError.
RECURSIVE addDependencies(_, _, _, _, _)
addDependencies(deps, order, pending, log, fs) ==
    IF deps = <<>> THEN [order |-> order, pending |-> pending, log |-> log, raised |-> ""]
    ELSE LET u == update_first_path(order, Head(deps), fs)
         IN IF u.ret = "FileNotFoundError"
            THEN [order |-> order, pending |-> pending, log |-> log,
                  raised |-> "FileNotFoundError"]
            ELSE IF u.ret = "True"
            THEN addDependencies(Tail(deps), u.order, appendleft(pending, Head(deps)),
                                 Append(log, Head(deps)), fs)
            ELSE addDependencies(Tail(deps), order, pending, log, fs)

\* ConfigBundle.get_dependencies: the names of all layers but the last.
get_dependencies(order) == SubSeq(order, 1, Len(order) - 1)

\* The gn_flags.map of bundle n when it defines the key K: the line K=n.
KeyK == <<"K">>
flagsDir(n) == (GN_FLAGS_MAP :> <<"K", "=", n, NL>>)
emptyDir == <<>>

NoValue == [raised |-> "", data |-> <<>>]

\* No read of _config_data has been made.
InitAccess ==
    /\ read_cache = None
    /\ value = NoValue
    /\ n_access = 0
    /\ n_parse = 0

InitObject ==
    /\ path_order = <<>>
    /\ op = <<"none", NoName>>
    /\ result = "none"
    /\ cls = "ConfigBundle"
    /\ InitAccess

\* The bundles on disk: every existing bundle has valid metadata with a
\* depends list of at most MaxDeps names, and every existing bundle but
\* possibly the requested one has a gn_flags.map defining K.
Init ==
    /\ exists \in {BundleNames, BundleNames \ {OptionalName}}
    /\ \E definers \in {BundleNames, BundleNames \ {RootName}} :
          tree = [n \in BundleNames |->
                    IF n \in exists \cap definers THEN flagsDir(n) ELSE emptyDir]
    /\ InitObject
    /\ depends \in {g \in [BundleNames -> SeqsUpTo(BundleNames, MaxDeps)] :
                       \A n \in BundleNames \ exists : g[n] = <<>>}
    /\ pending_explore = <<>>
    /\ known_names = {}
    /\ base_bundle_name = NoName
    /\ push_log = <<>>
    /\ pc = "idle"

\* new_bundle = cls(config_bundles_dir / name); pending_explore.appendleft(name)
Start ==
    /\ pc = "idle"
    /\ RootName \in exists
    /\ path_order' = appendleft(<<>>, RootName)
    /\ pending_explore' = appendleft(<<>>, RootName)
    /\ push_log' = <<RootName>>
    /\ known_names' = {}
    /\ pc' = "loop"
    /\ UNCHANGED <<exists, tree, op, result, read_cache, depends, base_bundle_name>>
    /\ UNCHANGED accVars

\* One iteration of the while loop.
Explore ==
    /\ pc = "loop"
    /\ pending_explore # <<>>
    /\ LET p == pop(pending_explore)
       IN /\ base_bundle_name' = p.item
          /\ IF p.item \in known_names
             THEN /\ pc' = "ValueError"
                  /\ pending_explore' = p.rest
                  /\ UNCHANGED <<path_order, known_names, push_log>>
             ELSE LET r == addDependencies(depends[p.item], path_order, p.rest,
                                           push_log, exists)
                  IN /\ known_names' = known_names \cup {p.item}
                     /\ path_order' = r.order
                     /\ pending_explore' = r.pending
                     /\ push_log' = r.log
                     /\ pc' = IF r.raised # "" THEN r.raised ELSE "loop"
    /\ UNCHANGED <<exists, tree, op, result, read_cache, depends>>
    /\ UNCHANGED accVars

\* After the loop: new_bundle.patches reads _config_data, which parses the
\* bundle's directories and caches the file objects; the bundle is returned.
Finish ==
    /\ pc = "loop"
    /\ pending_explore = <<>>
    /\ LET r == configData(cls, read_cache, path_order, tree)
       IN /\ read_cache' = r.cache
          /\ value' = r.value
          /\ n_parse' = n_parse + (IF r.parsed THEN 1 ELSE 0)
          /\ pc' = IF r.value.raised # "" THEN r.value.raised ELSE "done"
    /\ n_access' = n_access + 1
    /\ UNCHANGED <<exists, tree, path_order, op, result, cls, depends, pending_explore,
                   known_names, base_bundle_name, push_log>>

Next == Start \/ Explore \/ Finish

Spec == Init /\ [][Next]_vars

\* ---------------------------------------------------------------- resolution: properties

\* The bundles the names of S depend on directly.
Successors(g, S) == UNION {Range(g[n]) : n \in S \cap DOMAIN g}

RECURSIVE closure(_, _)
closure(g, S) ==
    LET T == S \cup Successors(g, S) IN IF T = S THEN S ELSE closure(g, T)

\* The bundles n depends on, directly or transitively.
DependenciesOf(g, n) == closure(g, Successors(g, {n}))

DependsOnItself(g, n) == n \in DependenciesOf(g, n)

Acyclic(g) == \A n \in DOMAIN g : ~DependsOnItself(g, n)

\* The place of name n in the history of pushes.
PushIndex(n) == CHOOSE i \in 1..Len(push_log) : push_log[i] = n

MostRecentlyPushed ==
    CHOOSE n \in Range(pending_explore) :
        \A m \in Range(pending_explore) : PushIndex(m) <= PushIndex(n)

LeastRecentlyPushed ==
    CHOOSE n \in Range(pending_explore) :
        \A m \in Range(pending_explore) : PushIndex(n) <= PushIndex(m)

\* The dependencies of deps not yet in seen, each once, in declared order.
RECURSIVE newNames(_, _)
newNames(deps, seen) ==
    IF deps = <<>> THEN <<>>
    ELSE IF Head(deps) \in Range(seen) THEN newNames(Tail(deps), seen)
    ELSE <<Head(deps)>> \o newNames(Tail(deps), Append(seen, Head(deps)))

\* Breadth-first, declaration-order traversal of graph g: the names in the
\* order they are discovered, queue holding the discovered names not yet expanded.
RECURSIVE breadthFirst(_, _, _)
breadthFirst(g, queue, seen) ==
    IF queue = <<>> THEN seen
    ELSE LET new == newNames(g[Head(queue)], seen)
         IN breadthFirst(g, Tail(queue) \o new, seen \o new)

\* The value of key K read through the resolved bundle (bundle.gn_flags[K]).
BundleValue(k) ==
    LET f == read_cache.data[GN_FLAGS_MAP]
    IN dictGet(mappingParse(layerTexts(f.order, tree, GN_FLAGS_MAP)).data, k)

\* The value bundle n's own gn_flags.map gives to K.
OwnValue(n, k) == dictGet(mappingParse(<<tree[n][GN_FLAGS_MAP]>>).data, k)

DefinesK(n) ==
    /\ GN_FLAGS_MAP \in DOMAIN tree[n]
    /\ KeyK \in dictKeys(mappingParse(<<tree[n][GN_FLAGS_MAP]>>).data)

\* C1: a bundle that depends on itself, directly or transitively, is never
\* resolved to a bundle: from_base_name raises the duplicate-dependency
\* error instead of returning (and so before any file is merged).
C1_SelfDependencyRaises ==
    (pc = "done") => ~DependsOnItself(depends, RootName)

\* C2 as stated: on an acyclic graph the pending name explored next is always
\* the most recently pushed one (LIFO).
C2_ExploresMostRecentlyPushed ==
    [][(pc = "loop" /\ pending_explore # <<>> /\ Acyclic(depends))
         => base_bundle_name' = MostRecentlyPushed]_vars

\* C2 amended: on an acyclic graph the pending name explored next is always the
\* least recently pushed one (FIFO), and the layer order of the returned bundle,
\* front to back, is the reverse of the order in which a breadth-first,
\* declaration-order traversal discovers the bundles.
C2_ExploresLeastRecentlyPushed ==
    /\ [][(pc = "loop" /\ pending_explore # <<>> /\ Acyclic(depends))
            => base_bundle_name' = LeastRecentlyPushed]_vars
    /\ []((pc = "done" /\ Acyclic(depends))
            => path_order = Reverse(breadthFirst(depends, <<RootName>>, <<RootName>>)))

\* C2 witness: on an acyclic graph an iteration has explored one pushed
\* dependency while another one was still pending.
C2_Witness ==
    /\ pc = "loop"
    /\ Acyclic(depends)
    /\ base_bundle_name # RootName
    /\ base_bundle_name # NoName
    /\ pending_explore # <<>>
    /\ Len(path_order) = 3

\* C3: with dependencies d1 then d2 both defining key K and the bundle itself
\* not defining it, the value of K read through the bundle is d2's value.
C3_LastListedWins ==
    (pc = "done") =>
        \A i, j \in 1..Len(depends[RootName]) :
            LET d1 == depends[RootName][i]
                d2 == depends[RootName][j]
            IN (i < j /\ DefinesK(d1) /\ DefinesK(d2) /\ ~DefinesK(RootName))
                 => BundleValue(KeyK) = OwnValue(d2, KeyK)

\* C10: get_dependencies() of a bundle built by from_base_name yields every
\* layer but the bundle's own directory, each once, in layer order, and never
\* the bundle's own name: the bundle's own directory is the last layer from
\* construction on, also when the depends graph leads back to the bundle.
C10_DependenciesExcludeSelf ==
    (pc # "idle") =>
        /\ path_order[Len(path_order)] = RootName
        /\ (pc = "done") =>
              LET deps == get_dependencies(path_order)
              IN /\ RootName \notin Range(deps)
                 /\ NoDuplicates(deps)
                 /\ Range(deps) = Range(path_order) \ {RootName}
                 /\ Range(deps) = DependenciesOf(depends, RootName) \ {RootName}
                 /\ \A i \in 1..Len(deps) : deps[i] = path_order[i]

\* C10 witness: a returned bundle whose depends graph leads back to it
\* through two other bundles.
C10_Witness ==
    /\ pc = "done"
    /\ DependsOnItself(depends, RootName)
    /\ Len(get_dependencies(path_order)) = 2

\* ---------------------------------------------------------------- resolution: termination

\* The bundles on disk for the termination check: as in Init, with every
\* existing bundle defining K (the traversal reads no file but the metadata)
\* and no name written twice in one depends list (a repeated name is skipped
\* by update_first_path like any name already among the layers).
InitLive ==
    /\ Init
    /\ tree = [n \in BundleNames |-> IF n \in exists THEN flagsDir(n) ELSE emptyDir]
    /\ \A n \in BundleNames : NoDuplicates(depends[n])

\* from_base_name is one sequential call: a step that can be taken is taken.
SpecLive == InitLive /\ [][Next]_vars /\ WF_vars(Next)

\* from_base_name has returned or raised.
Ended == pc \notin {"idle", "loop"}

\* The traversal so far: every name was pushed at most once, the root at the
\* start and the others when update_first_path added their directory, so the
\* pushed names are the layers; no name is explored twice, so the duplicate
\* check never raises; and the iterations made, one per explored name, are at
\* most the bundles there are.
TraversalBounded ==
    /\ NoDuplicates(push_log)
    /\ Len(push_log) = Len(path_order)
    /\ Range(push_log) = Range(path_order)
    /\ NoDuplicates(pending_explore)
    /\ Range(pending_explore) \cap known_names = {}
    /\ Range(pending_explore) \cup known_names \subseteq Range(push_log)
    /\ pc # "ValueError"
    /\ known_names \subseteq exists
    /\ Cardinality(known_names) <= Cardinality(exists)

\* C11: the dependency traversal of from_base_name terminates on every set of
\* bundles, whatever self-references, cycles and shared dependencies the
\* depends graph has: every name is pushed at most once, only when its
\* directory was newly added to the layer order, and explored at most once,
\* so the loop makes at most as many iterations as there are bundles and the
\* call returns or raises.
C11_TraversalTerminates == []TraversalBounded /\ <>Ended

\* C11 witness: a traversal that ended after exploring every bundle of a
\* graph in which the root is on a cycle and is named by two bundles.
C11_Witness ==
    /\ Ended
    /\ known_names = BundleNames
    /\ DependsOnItself(depends, RootName)
    /\ Cardinality({n \in BundleNames : RootName \in Range(depends[n])}) >= 2

\* ---------------------------------------------------------------- path list calls

IdleResolution ==
    /\ depends = [n \in BundleNames |-> <<>>]
    /\ pending_explore = <<>>
    /\ known_names = {}
    /\ base_bundle_name = NoName
    /\ push_log = <<>>
    /\ pc = "idle"

\* _ConfigABC.__init__(path): the path exists and is the only layer.
InitPaths ==
    /\ exists \in SUBSET BundleNames
    /\ tree = [n \in BundleNames |-> emptyDir]
    /\ \E path \in exists : path_order = appendleft(<<>>, path)
    /\ op = <<"__init__", NoName>>
    /\ result = "none"
    /\ cls = "ListConfigFile"
    /\ InitAccess
    /\ IdleResolution

CallUpdateFirstPath ==
    /\ \E path \in BundleNames :
          LET u == update_first_path(path_order, path, exists)
          IN /\ path_order' = u.order
             /\ result' = u.ret
             /\ op' = <<"update_first_path", path>>
    /\ UNCHANGED <<exists, tree, read_cache>>
    /\ UNCHANGED accVars
    /\ UNCHANGED resVars

CallUpdateLastPath ==
    /\ \E path \in BundleNames :
          LET u == update_last_path(path_order, path, exists)
          IN /\ path_order' = u.order
             /\ result' = u.ret
             /\ op' = <<"update_last_path", path>>
    /\ UNCHANGED <<exists, tree, read_cache>>
    /\ UNCHANGED accVars
    /\ UNCHANGED resVars

\* The filesystem changes under the object: a path is created or removed.
CreatePath ==
    /\ \E path \in BundleNames \ exists :
          /\ exists' = exists \cup {path}
          /\ op' = <<"create", path>>
    /\ result' = "none"
    /\ UNCHANGED <<tree, path_order, read_cache>>
    /\ UNCHANGED accVars
    /\ UNCHANGED resVars

RemovePath ==
    /\ \E path \in exists :
          /\ exists' = exists \ {path}
          /\ op' = <<"remove", path>>
    /\ result' = "none"
    /\ UNCHANGED <<tree, path_order, read_cache>>
    /\ UNCHANGED accVars
    /\ UNCHANGED resVars

NextPaths == CallUpdateFirstPath \/ CallUpdateLastPath \/ CreatePath \/ RemovePath

SpecPaths == InitPaths /\ [][NextPaths]_vars

\* What a call of update_first_path or update_last_path with path p does.
CallContract ==
    LET p == op'[2]
        known == p \in Range(path_order)
    IN (op'[1] \in {"update_first_path", "update_last_path"}) =>
         /\ (~known /\ p \in exists) =>
               /\ result' = "True"
               /\ path_order' = IF op'[1] = "update_first_path"
                                 THEN <<p>> \o path_order ELSE path_order \o <<p>>
         /\ known => (result' = "False" /\ path_order' = path_order)
         /\ (~known /\ p \notin exists) =>
               (result' = "FileNotFoundError" /\ path_order' = path_order)

\* C6: after any sequence of update_first_path and update_last_path calls the
\* layer order holds no path twice; a new, existing path is added at the front
\* (back) and the call returns True; a known path returns False and changes
\* nothing, whether or not it still exists; an unknown, missing path raises
\* FileNotFoundError and changes nothing.
C6_PathListContract ==
    /\ []NoDuplicates(path_order)
    /\ [][CallContract]_vars

\* C6 witness: a call with a known path that no longer exists returned False,
\* on an order built by earlier calls.
C6_Witness ==
    /\ op[1] \in {"update_first_path", "update_last_path"}
    /\ result = "False"
    /\ op[2] \notin exists
    /\ Len(path_order) = 3

\* ---------------------------------------------------------------- reading a mapping file

\* Longest total of lines over the layers of a mapping file.
MaxLines == 3
\* Reads of _config_data made on one object.
MaxAccess == 2

\* The directories of the layers of a config file, in layer order.
LayerDirs == <<"a", "b", "c">>

Keys == {<<"k">>, <<"j">>}
Values == {<<"a">>, <<"b">>, <<"a", "=", "b">>}

\* The lines of a mapping file: key=value lines (one with a value holding
\* '='), an empty line and a line without '='.
MapLines ==
    {key \o <<"=">> \o val : key \in Keys, val \in Values} \cup {<<>>, <<"k", "a">>}

\* A MappingConfigFile over three layers holding at most MaxLines lines.
InitMap ==
    /\ exists = BundleNames
    /\ \E lines \in SeqsUpTo(MapLines, MaxLines) :
        \E i \in 0..Len(lines) :
        \E j \in i..Len(lines) :
          tree = [d \in BundleNames |->
                    GN_FLAGS_MAP :> writelines(
                        CASE d = LayerDirs[1] -> SubSeq(lines, 1, i)
                          [] d = LayerDirs[2] -> SubSeq(lines, i + 1, j)
                          [] OTHER -> SubSeq(lines, j + 1, Len(lines)))]
    /\ path_order = LayerDirs
    /\ op = <<"__init__", NoName>>
    /\ result = "none"
    /\ cls = "MappingConfigFile"
    /\ InitAccess
    /\ IdleResolution

\* A read of the object's content: self._config_data.
ReadConfigData ==
    /\ n_access < MaxAccess
    /\ LET r == configData(cls, read_cache, path_order, tree)
       IN /\ read_cache' = r.cache
          /\ value' = r.value
          /\ n_parse' = n_parse + (IF r.parsed THEN 1 ELSE 0)
    /\ n_access' = n_access + 1
    /\ op' = <<"_config_data", NoName>>
    /\ UNCHANGED <<exists, tree, path_order, result, cls>>
    /\ UNCHANGED resVars

NextMap == ReadConfigData

SpecMap == InitMap /\ [][NextMap]_vars

\* The non-empty lines of layer i.
LayerLines(i) == filterLen(splitlines(tree[path_order[i]][GN_FLAGS_MAP]))

\* Line l is key k, '=' and a value without '='.
IsDefinition(l, k) ==
    /\ Len(l) > Len(k)
    /\ SubSeq(l, 1, Len(k)) = k
    /\ l[Len(k) + 1] = "="
    /\ \A n \in (Len(k) + 2)..Len(l) : l[n] # "="

LayerDefines(i, k) == \E n \in 1..Len(LayerLines(i)) : IsDefinition(LayerLines(i)[n], k)

\* The value the last line of layer i that defines k gives to it.
LayerValue(i, k) ==
    LET lines == LayerLines(i)
        n == CHOOSE n \in 1..Len(lines) :
                /\ IsDefinition(lines[n], k)
                /\ \A m \in (n + 1)..Len(lines) : ~IsDefinition(lines[m], k)
    IN SubSeq(lines[n], Len(k) + 2, Len(lines[n]))

\* C7: the merged value of every key is the value from the last layer in the
\* layer order that defines the key, however many earlier layers define it too,
\* and the merged keys are the keys some layer defines.
C7_LastLayerWins ==
    (n_access > 0 /\ value.raised = "") =>
        /\ \A k \in Keys :
              k \in dictKeys(value.data) <=> \E i \in 1..Len(path_order) : LayerDefines(i, k)
        /\ \A k \in Keys : \A i \in 1..Len(path_order) :
              (LayerDefines(i, k) /\ \A j \in (i + 1)..Len(path_order) : ~LayerDefines(j, k))
                  => dictGet(value.data, k) = LayerValue(i, k)

\* C7 witness: three layers define k, the last with another value than the
\* first two, and the mapping was read.
C7_Witness ==
    /\ n_access > 0
    /\ value.raised = ""
    /\ \A i \in 1..3 : LayerDefines(i, <<"k">>)
    /\ LayerValue(1, <<"k">>) = <<"a">>
    /\ LayerValue(2, <<"k">>) = <<"a">>
    /\ LayerValue(3, <<"k">>) = <<"b">>

\* C8: a mapping file whose non-empty lines all hold a '=' parses, also when a
\* value itself holds '=' (k=a=b).
C8_SplitOnFirstEquals ==
    (/\ n_access > 0
     /\ \A i \in 1..Len(path_order) : \A n \in 1..Len(LayerLines(i)) :
            "=" \in Range(LayerLines(i)[n]))
        => value.raised = ""

\* ---------------------------------------------------------------- reading twice

\* The classes of the objects read twice: one of each variant and the bundle.
ReadClasses == {"ListConfigFile", "MappingConfigFile", "IniConfigFile", "ConfigBundle"}

\* What directory d can hold for an object of class c: for a config file an
\* empty file or a file with one entry, for a bundle no file or a gn_flags.map.
dirOptions(c, d) ==
    CASE c = "ConfigBundle" -> {emptyDir, flagsDir(d)}
      [] c = "ListConfigFile" -> {fileName(c) :> <<>>, fileName(c) :> <<d, NL>>}
      [] c = "MappingConfigFile" -> {fileName(c) :> <<>>, fileName(c) :> <<"k", "=", d, NL>>}
      [] OTHER -> {fileName(c) :> <<>>, fileName(c) :> ("sec" :> ("key" :> <<d>>))}

\* An object of one of the classes over one layer; more layers are added by
\* update_last_path.
InitCache ==
    /\ exists = BundleNames
    /\ cls \in ReadClasses
    /\ \E t \in [BundleNames -> UNION {dirOptions(c, d) : c \in ReadClasses, d \in BundleNames}] :
          /\ \A d \in BundleNames : t[d] \in dirOptions(cls, d)
          /\ tree = t
    /\ path_order = appendleft(<<>>, LayerDirs[1])
    /\ op = <<"__init__", NoName>>
    /\ result = "none"
    /\ InitAccess
    /\ IdleResolution

\* The filesystem changes under the object: the content of a directory is
\* replaced.
RewriteDir ==
    /\ \E d \in BundleNames : \E new \in dirOptions(cls, d) \ {tree[d]} :
          /\ tree' = [tree EXCEPT ![d] = new]
          /\ op' = <<"rewrite", d>>
    /\ result' = "none"
    /\ UNCHANGED <<exists, path_order, read_cache>>
    /\ UNCHANGED accVars
    /\ UNCHANGED resVars

NextCache == ReadConfigData \/ RewriteDir \/ CallUpdateLastPath

SpecCache == InitCache /\ [][NextCache]_vars

\* C4: for every variant and for the bundle, the first read of the content
\* parses the layers and every later read returns the cached result without
\* reading the layers again, whatever was parsed and whatever changed since.
C4_ParsedOnce == (n_access >= 1) => (n_parse = 1)

\* C4 for the classes that inherit _CacheConfigMixin only: an empty parse
\* result still violates it.
C4_MixinParsedOnce == (cls \in CachedClasses /\ n_access >= 1) => (n_parse = 1)

\* ---------------------------------------------------------------- extra_deps.ini entries

NoneResult == [raised |-> "", none |-> TRUE, data |-> <<>>]
Returned(x) == [raised |-> "", none |-> FALSE, data |-> x]
Raised(e) == [raised |-> e, none |-> TRUE, data |-> <<>>]

\* self._section_dict.get(name, fallback=None)
sectionGetFallback(section, name) ==
    IF name \notin DOMAIN section THEN NoneResult
    ELSE LET v == sectionGet(section, name)
         IN IF v.raised # "" THEN Raised(v.raised) ELSE Returned(v.data)

\* _ExtraDepsSection.__getattr__: a passthrough property reads the section,
\* hashes builds the dict of the hashes present, any other name falls off
\* the end of the method and yields None.
getattr(section, name) ==
    IF name \in Range(passthrough_properties) THEN sectionGetFallback(section, name)
    ELSE IF name = "hashes"
    THEN Returned([h \in {x \in Range(hashes) :
                            ~sectionGetFallback(section, x).none} |->
                      sectionGetFallback(section, h).data])
    ELSE NoneResult

\* The keys the sections of the model's extra_deps.ini files draw from, and
\* the attributes read from an entry.
EntryKeys == Range(required_keys) \cup {"strip_leading_dirs"} \cup Range(hashes)
EntryAttributes == Range(required_keys) \cup {"strip_leading_dirs", "hashes"}
EntrySection == "dep"
\* The raw value the model's files give to key k.
rawValue(k) == <<k>>

\* An ExtraDepsIni over one layer whose file has one section with any of the
\* keys.
InitDeps ==
    /\ exists = BundleNames
    /\ \E keys \in SUBSET EntryKeys :
          tree = [d \in BundleNames |->
                    EXTRA_DEPS_INI :> (EntrySection :> [k \in keys |-> rawValue(k)])]
    /\ path_order = appendleft(<<>>, LayerDirs[1])
    /\ op = <<"__init__", NoName>>
    /\ result = NoneResult
    /\ cls = "ExtraDepsIni"
    /\ InitAccess
    /\ IdleResolution

\* getattr(extra_deps[section], name): __getitem__ reads _config_data and wraps
\* the section, __getattr__ reads the attribute.
ReadEntryAttribute ==
    /\ n_access < MaxAccess
    /\ \E name \in EntryAttributes :
          LET r == configData(cls, read_cache, path_order, tree)
          IN /\ read_cache' = r.cache
             /\ value' = r.value
             /\ n_parse' = n_parse + (IF r.parsed THEN 1 ELSE 0)
             /\ result' = IF r.value.raised # "" THEN Raised(r.value.raised)
                           ELSE getattr(r.value.data[EntrySection], name)
             /\ op' = <<"__getattr__", name>>
    /\ n_access' = n_access + 1
    /\ UNCHANGED <<exists, tree, path_order, cls>>
    /\ UNCHANGED resVars

NextDeps == ReadEntryAttribute

SpecDeps == InitDeps /\ [][NextDeps]_vars

\* The section of the file on disk.
DiskSection == tree[path_order[1]][EXTRA_DEPS_INI][EntrySection]

\* The section has the required keys and at least one hash.
WellFormedEntry ==
    /\ Range(required_keys) \subseteq DOMAIN DiskSection
    /\ DOMAIN DiskSection \cap Range(hashes) # {}

\* C9: reading a required field or strip_leading_dirs of a well-formed entry
\* returns the value the section gives to that key, an undefined
\* strip_leading_dirs reads as None without error, and hashes holds exactly
\* the hash keys present in the section.
C9_EntryExposesFields ==
    (op[1] = "__getattr__" /\ WellFormedEntry) =>
        LET name == op[2]
        IN /\ result.raised = ""
           /\ (name # "hashes" /\ name \in DOMAIN DiskSection)
                 => (~result.none /\ result.data = rawValue(name))
           /\ (name # "hashes" /\ name \notin DOMAIN DiskSection) => result.none
           /\ (name = "hashes")
                 => (~result.none /\ DOMAIN result.data = DOMAIN DiskSection \cap Range(hashes))

\* C9 without sections that define strip_leading_dirs: what the code does
\* provide.
C9_EntryWithoutOptionalKey ==
    ("strip_leading_dirs" \notin DOMAIN DiskSection) => C9_EntryExposesFields

\* ---------------------------------------------------------------- ConfigBundle.write

\* str.replace('%%', '')
RECURSIVE stripEscapes(_)
stripEscapes(v) ==
    IF v = <<>> THEN <<>>
    ELSE IF Len(v) >= 2 /\ v[1] = "%" /\ v[2] = "%" THEN stripEscapes(SubSeq(v, 3, Len(v)))
    ELSE <<Head(v)>> \o stripEscapes(Tail(v))

\* BasicInterpolation.before_set, called by ConfigParser.read_dict for every
\* value: a '%' left after the '%%' pairs are removed raises ValueError.
before_set(v) == IF "%" \in Range(stripEscapes(v)) THEN "ValueError" ELSE ""

\* The sections of a parsed INI as its accessors and read_dict see them:
\* every value interpolated.
iniView(ini) == [sec \in DOMAIN ini |-> [k \in DOMAIN ini[sec] |-> sectionGet(ini[sec], k).data]]

\* '%s=%s\n' % item for every item of the dict.
RECURSIVE writeItems(_)
writeItems(d) ==
    IF d = <<>> THEN <<>>
    ELSE Head(d)[1] \o <<"=">> \o Head(d)[2] \o <<NL>> \o writeItems(Tail(d))

\* config_file.write(path / name): the content of the file written, or the
\* error raised. IniConfigFile.write passes the interpolated values of
\* _config_data to read_dict and writes the parser it filled; what
\* ConfigParser.write prints, read_file reads back unchanged.
fileWrite(c, order, tr, fname) ==
    LET texts == layerTexts(order, tr, fname)
    IN CASE c \in {"ListConfigFile", "DomainRegexList"} ->
              [raised |-> "", data |-> writelines(line_generator(texts))]
         [] c = "MappingConfigFile" ->
              LET parsed == mappingParse(texts)
              IN [raised |-> parsed.raised, data |-> writeItems(parsed.data)]
         [] OTHER ->
              LET parsed == iniParse(c, texts)
                  view == iniView(parsed.data)
              IN IF parsed.raised # "" THEN [raised |-> parsed.raised, data |-> <<>>]
                 ELSE IF \E sec \in DOMAIN view : \E k \in DOMAIN view[sec] :
                            before_set(view[sec][k]) # ""
                 THEN [raised |-> "ValueError", data |-> <<>>]
                 ELSE [raised |-> "", data |-> view]

\* The content of a config file as its accessors give it: the entries of a
\* list, the dict of a mapping, the interpolated sections of an INI.
fileContent(c, order, tr, fname) ==
    LET texts == layerTexts(order, tr, fname)
    IN CASE c \in {"ListConfigFile", "DomainRegexList"} ->
              [raised |-> "", data |-> line_generator(texts)]
         [] c = "MappingConfigFile" -> mappingParse(texts)
         [] OTHER ->
              LET parsed == iniParse(c, texts)
              IN [raised |-> parsed.raised, data |-> iniView(parsed.data)]

\* The content of every config file of the bundle with the given layers.
bundleContent(order, tr) ==
    LET files == bundleParse(order, tr).data
    IN [f \in DOMAIN files |-> fileContent(files[f].class, files[f].order, tr, f)]

\* The directory ConfigBundle.write is called with.
OutDir == "c"

\* The files a source directory can hold besides its metadata.
ListTexts == {<<"x", NL>>, <<NL, "x", NL, "y">>}
MapTexts == {<<"k", "=", "a", NL>>, <<"k", "=", "b", NL, "j", "=", "a", NL>>}
VersionBase == ("chromium_version" :> <<"1">>) @@ ("release_revision" :> <<"2">>)
VersionFiles ==
    {"version" :> VersionBase}
    \cup {"version" :> (VersionBase @@ ("release_extra" :> extra)) :
            extra \in {<<"3">>, <<"3", "%", "%">>, <<"%", "%", "%", "%">>}}
MetaFile == "basebundle" :> ("display_name" :> <<"n">>)

\* The directories a bundle can have: the metadata and any of a pruning.list,
\* a gn_flags.map and a version.ini.
SourceDirs ==
    {(BASEBUNDLEMETA_INI :> MetaFile) @@ l @@ m @@ v :
        l \in {<<>>} \cup {PRUNING_LIST :> t : t \in ListTexts},
        m \in {<<>>} \cup {GN_FLAGS_MAP :> t : t \in MapTexts},
        v \in {<<>>} \cup {VERSION_INI :> t : t \in VersionFiles}}

\* A bundle resolved by from_base_name over one or two layers; the directory
\* to write to does not exist.
InitWrite ==
    /\ exists = BundleNames \ {OutDir}
    /\ path_order \in {<<"a">>, <<"b", "a">>}
    /\ \E da \in SourceDirs : \E db \in SourceDirs :
          /\ (Len(path_order) = 1) => (db = (BASEBUNDLEMETA_INI :> MetaFile))
          /\ tree = [d \in BundleNames |->
                       IF d = "a" THEN da ELSE IF d = "b" THEN db ELSE emptyDir]
    /\ op = <<"from_base_name", "a">>
    /\ result = "none"
    /\ cls = "ConfigBundle"
    /\ InitAccess
    /\ IdleResolution

\* ConfigBundle.write(OutDir): the directory is created, then every config
\* file of self._config_data is written. The files are written in the order
\* of the dict, which follows directory.iterdir(): when a file's write
\* raises, any of the other files may have been written before it.
WriteBundle ==
    /\ op' = <<"write", OutDir>>
    /\ IF OutDir \in exists
       THEN /\ result' = "FileExistsError"
            /\ UNCHANGED <<exists, tree, read_cache, value, n_access, n_parse>>
       ELSE LET r == configData(cls, read_cache, path_order, tree)
                files == r.value.data
                outs == [f \in DOMAIN files |->
                           fileWrite(files[f].class, files[f].order, tree, f)]
                failing == {f \in DOMAIN files : outs[f].raised # ""}
            IN /\ exists' = exists \cup {OutDir}
               /\ read_cache' = r.cache
               /\ value' = r.value
               /\ n_access' = n_access + 1
               /\ n_parse' = n_parse + (IF r.parsed THEN 1 ELSE 0)
               /\ IF failing = {}
                  THEN /\ result' = "ok"
                       /\ tree' = [tree EXCEPT ![OutDir] = [f \in DOMAIN files |-> outs[f].data]]
                  ELSE \E f \in failing : \E written \in SUBSET (DOMAIN files \ failing) :
                         /\ result' = outs[f].raised
                         /\ tree' = [tree EXCEPT ![OutDir] = [g \in written |-> outs[g].data]]
    /\ UNCHANGED <<path_order, cls>>
    /\ UNCHANGED resVars

\* ConfigBundle(OutDir) and a read of every config file of the new bundle.
ReloadBundle ==
    /\ OutDir \in exists
    /\ op[1] = "write"
    /\ op' = <<"ConfigBundle", OutDir>>
    /\ value' = [raised |-> bundleParse(<<OutDir>>, tree).raised,
                 data |-> bundleContent(<<OutDir>>, tree)]
    /\ UNCHANGED <<exists, tree, path_order, result, read_cache, cls, n_access, n_parse>>
    /\ UNCHANGED resVars

NextWrite == WriteBundle \/ ReloadBundle

SpecWrite == InitWrite /\ [][NextWrite]_vars

\* Two contents of one config file are equal.
contentEq(c, x, y) ==
    /\ x.raised = y.raised
    /\ IF c = "MappingConfigFile" THEN dictEq(x.data, y.data) ELSE x.data = y.data

\* Every config file of the bundle can be read.
Readable(content) == \A f \in DOMAIN content : content[f].raised = ""

\* C5: writing a bundle whose files can be read to a directory that does not
\* exist succeeds, and the bundle constructed from that directory has the
\* same recognized file names, each with content equal to the merged content
\* of the original.
C5_WriteRoundTrip ==
    LET original == bundleContent(path_order, tree)
    IN /\ (op[1] = "write" /\ result # "FileExistsError" /\ Readable(original))
             => result = "ok"
       /\ (op[1] = "ConfigBundle" /\ result = "ok")
             => /\ value.raised = ""
                /\ DOMAIN value.data = DOMAIN original
                /\ \A f \in DOMAIN original : contentEq(FILE_DEF[f], value.data[f], original[f])

\* C5 for bundles without INI files: lists and mappings do round-trip.
C5_ListsAndMappingsRoundTrip ==
    (\A i \in 1..Len(path_order) : VERSION_INI \notin DOMAIN tree[path_order[i]])
        => C5_WriteRoundTrip

====
